---- MODULE Spec2Model ----
(***************************************************************************)
(* Model of ocr_smarter.py: the per-page OCR pipeline (extract embedded    *)
(* images, ask the analysis model, reconcile the answer into a markdown    *)
(* file) and the run over all PDF files of the input directory.            *)
(*                                                                         *)
(* Strings are sequences of one-character strings.                         *)
(***************************************************************************)
EXTENDS Integers, Sequences, FiniteSets, TLC

(***************************************************************************)
(* Bounds of the model.                                                    *)
(***************************************************************************)
MaxFiles == 2
MaxPages == 2
MaxObjs == 2

(***************************************************************************)
(* String helpers.                                                         *)
(***************************************************************************)
RECURSIVE Concat(_)
Concat(ss) == IF ss = <<>> THEN <<>> ELSE Head(ss) \o Concat(Tail(ss))

\* s without the characters of drop
RECURSIVE Filter(_, _)
Filter(s, drop) ==
  IF Len(s) = 0 THEN <<>>
  ELSE IF Len(s) = 1 THEN (IF s[1] \in drop THEN <<>> ELSE s)
  ELSE LET h == Len(s) \div 2
       IN Filter(SubSeq(s, 1, h), drop) \o Filter(SubSeq(s, h + 1, Len(s)), drop)

Take(s, n) == IF Len(s) <= n THEN s ELSE SubSeq(s, 1, n)

Rep(c, n) == [i \in 1..n |-> c]

IsPrefix(a, b) == Len(a) <= Len(b) /\ SubSeq(b, 1, Len(a)) = a

EndsWith(s, suf) ==
  Len(suf) <= Len(s) /\ SubSeq(s, Len(s) - Len(suf) + 1, Len(s)) = suf

Chars(s) == {s[i] : i \in 1..Len(s)}

DigitChar(k) ==
  CASE k = 0 -> "0" [] k = 1 -> "1" [] k = 2 -> "2" [] k = 3 -> "3"
    [] k = 4 -> "4" [] k = 5 -> "5" [] k = 6 -> "6" [] k = 7 -> "7"
    [] k = 8 -> "8" [] OTHER -> "9"

\* str(n) of a natural number
RECURSIVE ToStr(_)
ToStr(n) == IF n < 10 THEN <<DigitChar(n)>>
            ELSE ToStr(n \div 10) \o <<DigitChar(n % 10)>>

\* str.lower() on the letters that occur in the modelled file names
LowerChar(c) ==
  CASE c = "P" -> "p" [] c = "D" -> "d" [] c = "F" -> "f" [] OTHER -> c

Lower(s) == [i \in 1..Len(s) |-> LowerChar(s[i])]

\* os.path.join of two relative components
PathJoin(a, b) == a \o <<"/">> \o b

\* os.path.splitext(name)[0]: the extension starts at the last dot, unless
\* only dots precede it
SplitextRoot(name) ==
  LET dots == {i \in 1..Len(name) : name[i] = "."}
      nondots == {i \in 1..Len(name) : name[i] # "."}
  IN IF dots = {} \/ nondots = {} THEN name
     ELSE LET last == CHOOSE i \in dots : \A j \in dots : j <= i
              first == CHOOSE i \in nondots : \A j \in nondots : i <= j
          IN IF last > first THEN SubSeq(name, 1, last - 1) ELSE name

(***************************************************************************)
(* sanitize_filename                                                       *)
(***************************************************************************)
ForbiddenChars == {"\\", "/", "*", "?", ":", "\"", "<", ">", "|"}

NameLimit == 100

ReplaceSpaces(s) == [i \in 1..Len(s) |-> IF s[i] = " " THEN "_" ELSE s[i]]

\* a sanitizer that cuts the name before it cleans it
sanitize_filename_cut_first(name) ==
  Filter(ReplaceSpaces(Filter(Take(name, NameLimit), ForbiddenChars)), {"\n"})

sanitize_filename(name) ==
  Take(Filter(ReplaceSpaces(Filter(name, ForbiddenChars)), {"\n"}), NameLimit)

(***************************************************************************)
(* The two regular expressions of process_pdf.  '.' matches any character  *)
(* but a newline; '.*?' is lazy, so the engine takes the first position at *)
(* which the rest of the pattern matches.                                  *)
(***************************************************************************)
NoNewline(s, a, b) == \A k \in a..b : s[k] # "\n"

Min(S) == CHOOSE x \in S : \A y \in S : x <= y

\* positions j of a "](" that the lazy '.*?' after "![" at i can stop at
BracketEnds(s, i) ==
  {j \in (i + 2)..(Len(s) - 1) :
      s[j] = "]" /\ s[j + 1] = "(" /\ NoNewline(s, i + 2, j - 1)}

\* positions k of a ")" closing the group opened by the "](" at j
ParenEnds(s, j) ==
  {k \in (j + 2)..Len(s) : s[k] = ")" /\ NoNewline(s, j + 2, k - 1)}

StartsImage(s, i) == i + 1 <= Len(s) /\ s[i] = "!" /\ s[i + 1] = "["

\* r'!\[.*?\]\((.*?)\)' matched at position i
RefMatches(s, i) ==
  StartsImage(s, i) /\ \E j \in BracketEnds(s, i) : ParenEnds(s, j) # {}

RefBracket(s, i) == Min({j \in BracketEnds(s, i) : ParenEnds(s, j) # {}})

RefClose(s, i) == Min(ParenEnds(s, RefBracket(s, i)))

\* re.findall(r'!\[.*?\]\((.*?)\)', s): the groups of the non-overlapping
\* matches, scanning from position i
RECURSIVE FindAllFrom(_, _)
FindAllFrom(s, i) ==
  IF i > Len(s) THEN <<>>
  ELSE IF RefMatches(s, i)
       THEN <<SubSeq(s, RefBracket(s, i) + 2, RefClose(s, i) - 1)>>
            \o FindAllFrom(s, RefClose(s, i) + 1)
       ELSE FindAllFrom(s, i + 1)

referenced_images(markdown_content) ==
  LET found == FindAllFrom(markdown_content, 1)
  IN {found[k] : k \in 1..Len(found)}

ImagesPrefix ==
  <<".", ".", "/", "i", "l", "l", "u", "s", "t", "r", "a", "t", "i", "v", "e",
    "_", "i", "m", "a", "g", "e", "s", "/">>

\* r'(!\[.*?\]\()' matched at position i
OpenMatches(s, i) == StartsImage(s, i) /\ BracketEnds(s, i) # {}

\* re.sub(r'(!\[.*?\]\()', r'\1../illustrative_images/', s) from position i
RECURSIVE RewriteFrom(_, _)
RewriteFrom(s, i) ==
  IF i > Len(s) THEN <<>>
  ELSE IF OpenMatches(s, i)
       THEN LET j == Min(BracketEnds(s, i))
            IN SubSeq(s, i, j + 1) \o ImagesPrefix \o RewriteFrom(s, j + 2)
       ELSE <<s[i]>> \o RewriteFrom(s, i + 1)

final_markdown(markdown_content) == RewriteFrom(markdown_content, 1)

(***************************************************************************)
(* extract_illustrative_images                                             *)
(***************************************************************************)
min_width == 50
min_height == 50

\* one embedded object: what doc.extract_image(xref) gives, or that it raises
Obj(raises, image, width, height) ==
  [raises |-> raises, image |-> image, width |-> width, height |-> height]

PngExt == <<"p", "n", "g">>

\* the size test with the bounds excluded
TooSmallOrEmptyStrict(o) ==
  o.image = <<>> \/ o.width <= min_width \/ o.height <= min_height

\* line 113: the object is skipped
TooSmallOrEmpty(o) ==
  o.image = <<>> \/ o.width < min_width \/ o.height < min_height

\* the object reaches lines 116-126
ObjKept(o) == ~o.raises /\ ~TooSmallOrEmpty(o)

ImgFilename(img_index) ==
  <<"i", "m", "g", "_">> \o ToStr(img_index) \o <<".">> \o PngExt

PageDirName(pn) == <<"p", "a", "g", "e", "_">> \o ToStr(pn + 1)

\* relative_path: basename of the page directory joined with the file name
RelativePath(pn, img_index) == PathJoin(PageDirName(pn), ImgFilename(img_index))

\* extracted_images after the loop has handled objects 1..n of image_list
RECURSIVE ExtractedImages(_, _, _)
ExtractedImages(image_list, pn, n) ==
  IF n = 0 THEN <<>>
  ELSE ExtractedImages(image_list, pn, n - 1) \o
       (IF ObjKept(image_list[n])
        THEN <<[path |-> RelativePath(pn, n - 1)]>> ELSE <<>>)

\* the files the loop has written: img_index -> bytes
WrittenImages(image_list) ==
  {k \in 1..Len(image_list) : ObjKept(image_list[k])}

(***************************************************************************)
(* JSON values of the model's answer.  dict.get gives None for a missing   *)
(* key and for a JSON null alike.                                          *)
(***************************************************************************)
JNone == [t |-> "none", s |-> <<>>, n |-> 0]
JStr(s) == [t |-> "str", s |-> s, n |-> 0]
JNum(n) == [t |-> "num", s |-> <<>>, n |-> n]

\* Python truth value
Truthy(v) == (v.t = "str" /\ v.s # <<>>) \/ (v.t = "num" /\ v.n # 0)

Whitespace == {" ", "\n", "\t"}

\* the test without the strip
IsBlankNoStrip(s) == s = <<>>

\* not s.strip()
IsBlank(s) == Chars(s) \subseteq Whitespace

JObject(unit, lesson, title, md) ==
  [kind |-> "object", unit_name |-> unit, lesson_number |-> lesson,
   lesson_title |-> title, markdown_content |-> md]

\* a content that is no JSON object: absent or null ("no_content"), not
\* JSON ("not_json"), or JSON of another type ("not_object")
JOther(kind) ==
  [kind |-> kind, unit_name |-> JNone, lesson_number |-> JNone,
   lesson_title |-> JNone, markdown_content |-> JNone]

\* what generate_analysis_from_llm returns: None, or the response body
ResultNone == [kind |-> "None", content |-> JOther("no_content")]
ResultNoChoices == [kind |-> "no_choices", content |-> JOther("no_content")]
ResultOk(content) == [kind |-> "ok", content |-> content]

(***************************************************************************)
(* Paths of process_pdf                                                    *)
(***************************************************************************)
OutputDir == <<"o", "u", "t">>

pdf_base_name(pdf_file) == SplitextRoot(pdf_file)

pdf_output_root(pdf_file) == PathJoin(OutputDir, pdf_base_name(pdf_file))

md_output_dir(pdf_file) ==
  PathJoin(pdf_output_root(pdf_file),
           <<"m", "a", "r", "k", "d", "o", "w", "n", "_", "c", "o", "n", "t",
             "e", "n", "t">>)

illustrative_images_dir(pdf_file) ==
  PathJoin(pdf_output_root(pdf_file),
           <<"i", "l", "l", "u", "s", "t", "r", "a", "t", "i", "v", "e", "_",
             "i", "m", "a", "g", "e", "s">>)

processed_scans_dir(pdf_file) ==
  PathJoin(pdf_output_root(pdf_file),
           <<"p", "r", "o", "c", "e", "s", "s", "e", "d", "_", "p", "a", "g",
             "e", "_", "s", "c", "a", "n", "s">>)

ScanPath(pdf_file, pn) ==
  PathJoin(processed_scans_dir(pdf_file),
           <<"s", "c", "a", "n", "_", "p", "a", "g", "e", "_">> \o ToStr(pn + 1)
             \o <<".", "p", "n", "g">>)

\* full_img_path of a candidate
CandidateFile(pdf_file, path) == PathJoin(illustrative_images_dir(pdf_file), path)

\* the '.pdf' filter of main
IsPdf(f) == EndsWith(Lower(f), <<".", "p", "d", "f">>)

RECURSIVE SelectPdf(_)
SelectPdf(listing) ==
  IF listing = <<>> THEN <<>>
  ELSE (IF IsPdf(Head(listing).name) THEN <<Head(listing)>> ELSE <<>>)
       \o SelectPdf(Tail(listing))

(***************************************************************************)
(* The output file name (lines 261-264)                                    *)
(***************************************************************************)
UnknownUnit == <<"U", "n", "k", "n", "o", "w", "n", "U", "n", "i", "t">>
Untitled == <<"U", "n", "t", "i", "t", "l", "e", "d">>
PageLabel(pn) == <<"P", "a", "g", "e", "_">> \o ToStr(pn + 1)

\* x or default
OrDefault(v, default) == IF Truthy(v) THEN v ELSE JStr(default)

\* str(v)
StrOf(v) == IF v.t = "num" THEN ToStr(v.n) ELSE v.s

\* sanitize_filename(unit) and sanitize_filename(title) raise TypeError on a
\* value that is no string; lesson_num goes through str() first
FilenameRaises(c) ==
  \/ OrDefault(c.unit_name, UnknownUnit).t # "str"
  \/ OrDefault(c.lesson_title, Untitled).t # "str"

OutputFilename(c, pn) ==
  Concat(<< <<"U", "n", "i", "t", "_">>,
            sanitize_filename(OrDefault(c.unit_name, UnknownUnit).s),
            <<"_", "L", "e", "s", "s", "o", "n", "_">>,
            sanitize_filename(StrOf(OrDefault(c.lesson_number, PageLabel(pn)))),
            <<"_">>,
            sanitize_filename(OrDefault(c.lesson_title, Untitled).s),
            <<".", "m", "d">> >>)

(***************************************************************************)
(* The inputs of a run: the input directory and what the analysis endpoint *)
(* answers.                                                                *)
(***************************************************************************)
MaxTotalPages == 2

FileNames ==
  { <<"a", ".", "p", "d", "f">>, <<"a", ".", "P", "D", "F">>,
    <<"b", ".", "p", "d", "f">>, <<"n", ".", "t", "x", "t">> }

\* a directory entry: its name, whether fitz.open and convert_from_path
\* succeed on it, and its number of pages
FileRecs ==
  [name : FileNames, opens : {TRUE}, npages : 1..MaxPages]
    \cup [name : FileNames, opens : {FALSE}, npages : {0}]

RECURSIVE TotalPages(_)
TotalPages(listing) ==
  IF listing = <<>> THEN 0 ELSE Head(listing).npages + TotalPages(Tail(listing))

Listings ==
  {l \in UNION {[1..n -> FileRecs] : n \in 0..MaxFiles} :
     /\ \A i, j \in 1..Len(l) : i # j => l[i].name # l[j].name
     /\ TotalPages(l) <= MaxTotalPages}

SinglePage == << [name |-> <<"a", ".", "p", "d", "f">>, opens |-> TRUE, npages |-> 1] >>

GoodObj == Obj(FALSE, <<"x">>, 50, 50)

ObjSamples ==
  { Obj(TRUE, <<>>, 0, 0), Obj(FALSE, <<>>, 60, 60), Obj(FALSE, <<"x">>, 49, 50),
    Obj(FALSE, <<"x">>, 50, 49), Obj(FALSE, <<"x">>, 40, 60),
    Obj(FALSE, <<"x">>, 60, 60), GoodObj }

\* what page.get_images can list
ImageLists(pool) ==
  IF pool = "rich" THEN UNION {[1..n -> ObjSamples] : n \in 0..MaxObjs}
  ELSE {<<>>, <<GoodObj>>}

Ref(alt, path) == <<"!", "[">> \o alt \o <<"]", "(">> \o path \o <<")">>

MdSamples(pn) ==
  LET P0 == RelativePath(pn, 0)
      P1 == RelativePath(pn, 1)
  IN { <<"t">>,
       Ref(<<"d">>, P0),
       Ref(<<"d">>, P1),
       <<"t", "\n">> \o Ref(<<"d">>, P0) \o <<" ">> \o Ref(<<"e">>, P1),
       <<"!", "[", "d", "]", "(">> \o P0,
       Ref(<<"d", "\n">>, P0),
       Ref(<<"d">>, <<" ">> \o P0),
       Ref(<<"a">>, <<"x">>) \o <<"]", "(">> \o P0 \o <<")">> }

LongName == Rep("u", NameLimit + 1)

\* a name that is over the limit before its cleaning and at it afterwards
LongDirty == <<"/", " ">> \o Rep("u", NameLimit)

Contents(pool, pn) ==
  IF pool = "rich"
  THEN { JObject(u, l, t, m) :
           u \in {JNone, JStr(<<>>), JStr(<<"U">>), JNum(5), JStr(LongName),
                  JStr(LongDirty), JStr(<<"A", "/", ":", " ", "\n", "B">>)},
           l \in {JNone, JStr(<<"1">>), JNum(7)},
           t \in {JNone, JStr(<<"T">>), JNum(5)},
           m \in {JNone, JNum(0), JNum(5), JStr(<<>>), JStr(<<" ", "\n">>)}
                   \cup {JStr(s) : s \in MdSamples(pn)} }
       \cup {JOther("no_content"), JOther("not_json"), JOther("not_object")}
  ELSE { JObject(JStr(<<"U">>), l, JNone, m) :
           l \in {JNone, JStr(<<"1">>)},
           m \in {JStr(<<"t">>), JStr(Ref(<<"d">>, RelativePath(pn, 0))),
                  JStr(Ref(<<"d">>, RelativePath(0, 0)))} }
       \cup {JOther("not_json"), JOther("not_object")}

\* the bodies a request that succeeds can give
Bodies(pool, pn) ==
  {ResultOk(c) : c \in Contents(pool, pn)}
    \cup (IF pool = "rich" THEN {ResultNoChoices} ELSE {})

(***************************************************************************)
(* State                                                                   *)
(***************************************************************************)
VARIABLES
  pdf_dir,          \* the entries os.listdir(args.pdf_dir) gives, in its order
  save_scans,       \* args.save_processed_scans
  pool,             \* which answers the analysis endpoint may give
  pc,               \* where the run is
  pdf_files,        \* main: the entries that passed the '.pdf' filter
  d,                \* main: index in pdf_files of the document in process_pdf
  page_num,         \* process_pdf: the page of the loop
  image_list,       \* extract_illustrative_images: page.get_images
  img_index,        \* extract_illustrative_images: objects handled so far
  extracted_images, \* extract_illustrative_images: the list it builds
  sub_images,       \* process_pdf: the candidates of the page
  result,           \* process_pdf: what generate_analysis_from_llm returned
  attempts,         \* requests sent by the last analysis call
  waits,            \* seconds slept between the requests of that call
  responses,        \* what the endpoint answered to each request of that call
  last,             \* the last outcome the run printed
  fs,               \* the files under the output directory: path -> content
  dirs              \* the directories under the output directory

vars ==
  <<pdf_dir, save_scans, pool, pc, pdf_files, d, page_num, image_list,
    img_index, extracted_images, sub_images, result, attempts, waits,
    responses, last, fs, dirs>>

inputs == <<pdf_dir, save_scans, pool>>
extractLocals == <<image_list, img_index, extracted_images>>
callLog == <<attempts, waits, responses>>

WriteFile(f, path, content) ==
  [q \in DOMAIN f \cup {path} |-> IF q = path THEN content ELSE f[q]]

RemoveFiles(f, paths) == [q \in DOMAIN f \ paths |-> f[q]]

EmptyFs == [q \in {} |-> <<>>]

Init ==
  /\ \/ pool = "basic" /\ pdf_dir \in Listings
     \/ pool = "rich" /\ pdf_dir = SinglePage
  /\ save_scans \in BOOLEAN
  /\ pc = "start"
  /\ pdf_files = <<>>
  /\ d = 0
  /\ page_num = 0
  /\ image_list = <<>>
  /\ img_index = 0
  /\ extracted_images = <<>>
  /\ sub_images = <<>>
  /\ result = ResultNone
  /\ attempts = 0
  /\ waits = <<>>
  /\ responses = <<>>
  /\ last = "none"
  /\ fs = EmptyFs
  /\ dirs = {}

cur == pdf_files[d]

(***************************************************************************)
(* main                                                                    *)
(***************************************************************************)
\* lines 310-317: create the output directory, list and filter the input
Main ==
  /\ pc = "start"
  /\ dirs' = dirs \cup {OutputDir}
  /\ pdf_files' = SelectPdf(pdf_dir)
  /\ IF SelectPdf(pdf_dir) = <<>>
     THEN pc' = "ended" /\ last' = "no_files" /\ d' = d
     ELSE pc' = "open" /\ last' = last /\ d' = 1
  /\ UNCHANGED <<inputs, page_num, extractLocals, sub_images, result, callLog, fs>>

\* line 318: the next document, or the end of the run
NextDoc ==
  /\ pc = "next_doc"
  /\ IF d < Len(pdf_files)
     THEN pc' = "open" /\ d' = d + 1
     ELSE pc' = "ended" /\ d' = d
  /\ UNCHANGED <<inputs, pdf_files, page_num, extractLocals, sub_images, result,
                 callLog, last, fs, dirs>>

(***************************************************************************)
(* process_pdf                                                             *)
(***************************************************************************)
\* an open failure that ends the run instead of the document
AfterOpenExits(opened) == IF opened THEN "page" ELSE "ended"

\* lines 203-209: where process_pdf goes after fitz.open and convert_from_path:
\* into the page loop, or back to main when either raised
AfterOpen(opened) == IF opened THEN "page" ELSE "next_doc"

\* lines 189-209: create the directories of the document, open and rasterize
OpenPdf ==
  /\ pc = "open"
  /\ dirs' = dirs \cup {pdf_output_root(cur.name), md_output_dir(cur.name),
                        illustrative_images_dir(cur.name)}
                  \cup (IF save_scans THEN {processed_scans_dir(cur.name)} ELSE {})
  /\ pc' = AfterOpen(cur.opens)
  /\ IF cur.opens
     THEN page_num' = 0 /\ last' = last
     ELSE page_num' = page_num /\ last' = "open_failed"
  /\ UNCHANGED <<inputs, pdf_files, d, extractLocals, sub_images, result,
                 callLog, fs>>

\* the directory extract_illustrative_images writes to
page_images_output_dir == PathJoin(illustrative_images_dir(cur.name), PageDirName(page_num))

\* lines 217-227 and 102-106: preprocess the page, save the scan if asked,
\* enter extract_illustrative_images and list the objects of the page
BeginPage ==
  /\ pc = "page"
  /\ fs' = IF save_scans
           THEN WriteFile(fs, ScanPath(cur.name, page_num), <<"s">>)
           ELSE fs
  /\ dirs' = dirs \cup {page_images_output_dir}
  /\ \E il \in ImageLists(pool) : image_list' = il
  /\ img_index' = 0
  /\ extracted_images' = <<>>
  /\ pc' = "extract"
  /\ UNCHANGED <<inputs, pdf_files, d, page_num, sub_images, result, callLog, last>>

\* lines 108-129: one turn of the loop over the objects.  An object that
\* raises is caught by 'except Exception' and the loop goes on.
ExtractOne ==
  /\ pc = "extract"
  /\ img_index < Len(image_list)
  /\ LET o == image_list[img_index + 1]
     IN IF ObjKept(o)
        THEN /\ fs' = WriteFile(fs, PathJoin(page_images_output_dir,
                                             ImgFilename(img_index)), o.image)
             /\ extracted_images' =
                  Append(extracted_images, [path |-> RelativePath(page_num, img_index)])
        ELSE UNCHANGED <<fs, extracted_images>>
  /\ img_index' = img_index + 1
  /\ UNCHANGED <<inputs, pc, pdf_files, d, page_num, image_list, sub_images,
                 result, callLog, last, dirs>>

\* line 131 and line 227: the call returns the list
ExtractReturn ==
  /\ pc = "extract"
  /\ img_index = Len(image_list)
  /\ sub_images' = extracted_images
  /\ image_list' = <<>>
  /\ img_index' = 0
  /\ extracted_images' = <<>>
  /\ pc' = "analyze"
  /\ UNCHANGED <<inputs, pdf_files, d, page_num, result, callLog, last, fs, dirs>>

(***************************************************************************)
(* generate_analysis_from_llm (lines 174-182): one request; a transport    *)
(* failure is caught and None is returned.                                 *)
(***************************************************************************)
\* a request that ends in a timeout, a connection error or a non-success
\* status: requests.post or raise_for_status raises RequestException
TransportFailure == [kind |-> "failure", content |-> JOther("no_content")]

\* a call that loses the body of a request that succeeded
AnalysisReturnNone(response) == ResultNone

\* lines 175-182: the body of the response, or None when the request failed
AnalysisReturn(response) ==
  IF response = TransportFailure THEN ResultNone ELSE response

Analyze ==
  /\ pc = "analyze"
  /\ attempts' = 1
  /\ waits' = <<>>
  /\ \E response \in Bodies(pool, page_num) \cup {TransportFailure} :
        /\ responses' = <<response>>
        /\ result' = AnalysisReturn(response)
  /\ pc' = "reconcile"
  /\ UNCHANGED <<inputs, pdf_files, d, page_num, extractLocals, sub_images,
                 last, fs, dirs>>

(***************************************************************************)
(* process_pdf, lines 239-275: reconcile the answer                        *)
(***************************************************************************)
\* a cleanup that deletes every candidate
UnreferencedAll(subs, markdown_content) == {k \in 1..Len(subs) : TRUE}

\* the candidates lines 250-255 delete
Unreferenced(subs, markdown_content) ==
  {k \in 1..Len(subs) : subs[k].path \notin referenced_images(markdown_content)}

\* a cleanup that goes through the whole image directory of the document
AfterCleanupOfDocument(f, pdf_file, subs, markdown_content) ==
  RemoveFiles(f, {path \in DOMAIN f :
                    \E rel \in Seq(Chars(path)) \cap {SubSeq(path, i, Len(path)) : i \in 1..Len(path)} :
                       /\ path = CandidateFile(pdf_file, rel)
                       /\ rel \notin referenced_images(markdown_content)})

AfterCleanup(f, pdf_file, subs, markdown_content) ==
  RemoveFiles(f, {CandidateFile(pdf_file, subs[k].path) :
                    k \in Unreferenced(subs, markdown_content)})

\* the outcome of lines 239-275 for one page: the files afterwards, what
\* was printed, and whether an exception left process_pdf
Reconciled(r, subs, f, pdf_file, pn) ==
  LET c == r.content
      md == c.markdown_content
      cleaned == AfterCleanup(f, pdf_file, subs, md.s)
  IN IF r.kind # "ok"
       THEN [fs |-> f, last |-> "no_result", raised |-> FALSE]
     ELSE IF c.kind \in {"no_content", "not_json"}
       THEN [fs |-> f, last |-> "parse_error", raised |-> FALSE]
     ELSE IF c.kind = "not_object"
       THEN [fs |-> f, last |-> "uncaught", raised |-> TRUE]
     ELSE IF ~Truthy(md)
       THEN [fs |-> f, last |-> "empty_md", raised |-> FALSE]
     ELSE IF md.t # "str"
       THEN [fs |-> f, last |-> "uncaught", raised |-> TRUE]
     ELSE IF IsBlank(md.s)
       THEN [fs |-> f, last |-> "empty_md", raised |-> FALSE]
     ELSE IF FilenameRaises(c)
       THEN [fs |-> cleaned, last |-> "parse_error", raised |-> FALSE]
     ELSE [fs |-> WriteFile(cleaned,
                            PathJoin(md_output_dir(pdf_file), OutputFilename(c, pn)),
                            final_markdown(md.s)),
           last |-> "saved", raised |-> FALSE]

Reconcile ==
  /\ pc = "reconcile"
  /\ LET out == Reconciled(result, sub_images, fs, cur.name, page_num)
     IN /\ fs' = out.fs
        /\ last' = out.last
        /\ pc' = IF out.raised THEN "crashed" ELSE "next_page"
  /\ UNCHANGED <<inputs, pdf_files, d, page_num, extractLocals, sub_images,
                 result, callLog, dirs>>

\* line 212: the next page, or doc.close() and the return to main
NextPage ==
  /\ pc = "next_page"
  /\ IF page_num + 1 < cur.npages
     THEN pc' = "page" /\ page_num' = page_num + 1
     ELSE pc' = "next_doc" /\ page_num' = page_num
  /\ UNCHANGED <<inputs, pdf_files, d, extractLocals, sub_images, result,
                 callLog, last, fs, dirs>>

Next ==
  \/ Main
  \/ NextDoc
  \/ OpenPdf
  \/ BeginPage
  \/ ExtractOne
  \/ ExtractReturn
  \/ Analyze
  \/ Reconcile
  \/ NextPage

Spec == Init /\ [][Next]_vars

(***************************************************************************)
(* Properties                                                              *)
(***************************************************************************)
InPage == pc \in {"page", "extract", "analyze", "reconcile", "next_page"}

CandidateExists(k) == CandidateFile(cur.name, sub_images[k].path) \in DOMAIN fs

Under(path, dir) == path = dir \/ IsPrefix(dir \o <<"/">>, path)

\* the markdown files of the output tree
MdFiles ==
  {path \in DOMAIN fs :
     \E k \in 1..Len(pdf_files) : Under(path, md_output_dir(pdf_files[k].name))}

\* C1: when every attempt of a page's analysis call fails in transport, the
\* failure signal reaches the orchestrator after exactly three requests,
\* with waits of 1 second and then 2 seconds between them.
C1_ThreeAttemptsThenFailure ==
  (pc = "reconcile" /\ result.kind = "None") =>
     (attempts = 3 /\ waits = <<1, 2>>)

\* the answer parsed as a JSON object with a markdown_content that is a
\* string with something besides whitespace in it
ParsedNonEmpty(r) ==
  /\ r.kind = "ok"
  /\ r.content.kind = "object"
  /\ r.content.markdown_content.t = "str"
  /\ \E i \in 1..Len(r.content.markdown_content.s) :
        r.content.markdown_content.s[i] \notin {" ", "\n", "\t"}

\* C2: after a page is reconciled (answer parsed, markdown_content not
\* empty), each candidate of the page has its file on disk exactly when its
\* relative path is one of the image-reference targets of markdown_content.
C2_CleanupMatchesReferences ==
  (pc = "next_page" /\ ParsedNonEmpty(result)) =>
     \A k \in 1..Len(sub_images) :
        CandidateExists(k) <=>
          sub_images[k].path \in referenced_images(result.content.markdown_content.s)

C2_Witness ==
  /\ pc = "next_page"
  /\ last = "saved"
  /\ Len(sub_images) = 2
  /\ CandidateExists(1)
  /\ ~CandidateExists(2)
  /\ referenced_images(result.content.markdown_content.s) = {sub_images[1].path}

\* a field of the answer that is missing or no string
MissingOrNotString(v) == v.t # "str"

\* the answer does not parse as JSON, or one of the four fields is missing
\* or of a non-string type
Malformed(r) ==
  /\ r.kind = "ok"
  /\ \/ r.content.kind \in {"not_json"}
     \/ /\ r.content.kind = "object"
        /\ \/ MissingOrNotString(r.content.unit_name)
           \/ MissingOrNotString(r.content.lesson_number)
           \/ MissingOrNotString(r.content.lesson_title)
           \/ MissingOrNotString(r.content.markdown_content)

\* C3: a page whose answer fails to parse as JSON, or has one of unit_name,
\* lesson_number, lesson_title, markdown_content missing or not a string, is
\* skipped: no markdown file is written and no candidate file is deleted.
C3_MalformedAnswerLeavesFilesAlone ==
  [][(pc = "reconcile" /\ Malformed(result)) => fs' = fs]_vars

\* the answer parsed as a JSON object whose markdown_content is absent,
\* empty or whitespace-only
EmptyTranscription(r) ==
  /\ r.kind = "ok"
  /\ r.content.kind = "object"
  /\ \/ r.content.markdown_content.t = "none"
     \/ /\ r.content.markdown_content.t = "str"
        /\ \A i \in 1..Len(r.content.markdown_content.s) :
              r.content.markdown_content.s[i] \in {" ", "\n", "\t"}

\* C4: a page whose parsed answer has markdown_content absent, empty or
\* whitespace-only gets no markdown file, and every candidate file of the
\* page stays on disk.
C4_EmptyTranscriptionSkipsPage ==
  [][(pc = "reconcile" /\ EmptyTranscription(result)) =>
       (fs' = fs /\ pc' = "next_page")]_vars

C4_Witness ==
  /\ pc = "next_page"
  /\ last = "empty_md"
  /\ EmptyTranscription(result)
  /\ result.content.markdown_content.s # <<>>
  /\ Len(sub_images) = 2
  /\ \A k \in 1..Len(sub_images) : CandidateExists(k)
  /\ MdFiles = {}

\* C5: no failure in a page or a document ends the run: the run is over
\* only when there were no input files or when every document has been gone
\* through to its last page.
C5_RunEndsOnlyWhenAllDone ==
  (pc \in {"ended", "crashed"}) =>
     (pdf_files = <<>> \/ (pc = "ended" /\ d = Len(pdf_files)))

\* the file name of a markdown file
MdName(path) ==
  LET k == CHOOSE k \in 1..Len(pdf_files) :
             Under(path, md_output_dir(pdf_files[k].name))
  IN SubSeq(path, Len(md_output_dir(pdf_files[k].name)) + 2, Len(path))

\* C6: the file name of every written markdown file has at most 100
\* characters and none of the characters \ / * ? : " < > |.
C6_FilenameShortAndClean ==
  \A path \in MdFiles :
     /\ Len(MdName(path)) <= 100
     /\ Chars(MdName(path)) \cap {"\\", "/", "*", "?", ":", "\"", "<", ">", "|"} = {}

\* C7: a markdown file, once written, keeps its content through every
\* later step of the run.
C7_WrittenFileNeverChanges ==
  [][\A path \in MdFiles : path \in DOMAIN fs' /\ fs'[path] = fs[path]]_vars

\* the paths a step creates, deletes or rewrites
Touched ==
  (DOMAIN fs' \ DOMAIN fs) \cup (DOMAIN fs \ DOMAIN fs')
    \cup {path \in DOMAIN fs \cap DOMAIN fs' : fs'[path] # fs[path]}
    \cup (dirs' \ dirs)

\* C8: two distinct input files own disjoint output subtrees: nothing
\* written or deleted while one document is processed lies in the subtree of
\* another document of the run.
C8_DisjointSubtrees ==
  [][\A j \in 1..Len(pdf_files) :
        j # d => \A path \in Touched : ~Under(path, pdf_output_root(pdf_files[j].name))]_vars

\* an object that qualifies as a candidate
Qualifies(o) == ~o.raises /\ o.image # <<>> /\ o.width >= 50 /\ o.height >= 50

Returned(k) ==
  \E e \in 1..Len(extracted_images) :
     extracted_images[e].path = RelativePath(page_num, k - 1)

Persisted(k) ==
  LET file == PathJoin(page_images_output_dir, ImgFilename(k - 1))
  IN file \in DOMAIN fs /\ fs[file] = image_list[k].image

\* C9: extract_illustrative_images returns a candidate, with its file
\* persisted, for exactly the objects with non-empty bytes, width >= 50,
\* height >= 50 and no extraction failure; an object that raises is skipped
\* and the objects after it are still examined.
C9_ExtractKeepsExactlyQualifying ==
  (pc = "extract") =>
     /\ \A k \in 1..img_index :
          /\ Returned(k) <=> Qualifies(image_list[k])
          /\ Qualifies(image_list[k]) => Persisted(k)
     /\ Len(extracted_images) <= img_index

C9_Witness ==
  /\ pc = "extract"
  /\ img_index = 2
  /\ image_list[1].raises
  /\ image_list[2].width = 50 /\ image_list[2].height = 50
  /\ Returned(2) /\ Persisted(2) /\ ~Returned(1)

\* C10: a document that fails to open or rasterize has none of its pages
\* processed (the failing step sends no request and writes no file), and
\* the run goes on to the other documents: it ends only after the last one.
C10_OpenFailureAbortsOnlyThatDocument ==
  /\ [](InPage => cur.opens)
  /\ [](pc = "ended" => (pdf_files = <<>> \/ d = Len(pdf_files)))
  /\ [][(pc = "open" /\ ~cur.opens) =>
          (fs' = fs /\ attempts' = attempts /\ pc' = "next_doc" /\ d' = d)]_vars

C10_Witness ==
  /\ pc = "ended"
  /\ Len(pdf_files) = 2
  /\ ~pdf_files[1].opens
  /\ pdf_files[2].opens
  /\ last = "saved"
  /\ MdFiles # {}

\* the markdown file the page of the loop was saved to
WrittenPath ==
  PathJoin(md_output_dir(cur.name), OutputFilename(result.content, page_num))

\* s from position i on, with the prefix put before the path of every image
\* reference (an opener "![", an alt text, "](", a path and the closing ")")
\* and every other character copied
RECURSIVE PrefixedReferences(_, _)
PrefixedReferences(s, i) ==
  IF i > Len(s) THEN <<>>
  ELSE IF RefMatches(s, i)
       THEN SubSeq(s, i, RefBracket(s, i) + 1) \o ImagesPrefix
            \o SubSeq(s, RefBracket(s, i) + 2, RefClose(s, i))
            \o PrefixedReferences(s, RefClose(s, i) + 1)
       ELSE <<s[i]>> \o PrefixedReferences(s, i + 1)

\* C11: the content written to the output file is markdown_content with
\* '../illustrative_images/' put right before the path of every Markdown
\* image reference, once per reference, and all other text unchanged.
C11_PrefixOncePerReference ==
  (pc = "next_page" /\ last = "saved") =>
     fs[WrittenPath] = PrefixedReferences(result.content.markdown_content.s, 1)

\* the requests of the last call that succeeded
Successes == {i \in 1..Len(responses) : responses[i] # TransportFailure}

\* C12: once an attempt of a page's analysis call succeeds, no further
\* request is sent for the page: the number of requests is the index of the
\* first attempt that succeeded, and its response is what process_pdf gets.
C12_SuccessEndsTheCall ==
  (pc = "reconcile" /\ Successes # {}) =>
     /\ attempts = Min(Successes)
     /\ Len(responses) = Min(Successes)
     /\ result = responses[Min(Successes)]

C12_Witness ==
  /\ pc = "reconcile"
  /\ Successes = {1}
  /\ attempts = 1
  /\ result.kind = "ok"
  /\ result.content.kind = "object"

\* the three fields that go into the file name, after their defaults
NameFields ==
  << OrDefault(result.content.unit_name, UnknownUnit).s,
     StrOf(OrDefault(result.content.lesson_number, PageLabel(page_num))),
     OrDefault(result.content.lesson_title, Untitled).s >>

\* the path of the file whose name is made of the fields sanitized by San
PathWith(San(_)) ==
  PathJoin(md_output_dir(cur.name),
           <<"U", "n", "i", "t", "_">> \o San(NameFields[1])
             \o <<"_", "L", "e", "s", "s", "o", "n", "_">> \o San(NameFields[2])
             \o <<"_">> \o San(NameFields[3]) \o <<".", "m", "d">>)

Reserved == {"\\", "/", "*", "?", ":", "\"", "<", ">", "|"}

FirstHundred(s) == SubSeq(s, 1, IF Len(s) < 100 THEN Len(s) ELSE 100)

\* forbidden characters removed, spaces and newlines made underscores, and
\* the result cut to 100 characters
UnderscoredNewlines(name) ==
  LET kept == SelectSeq(name, LAMBDA c : c \notin Reserved)
  IN FirstHundred([i \in 1..Len(kept) |->
                     IF kept[i] \in {" ", "\n"} THEN "_" ELSE kept[i]])

\* forbidden characters removed, spaces made underscores, newlines removed,
\* and the result cut to 100 characters
RemovedNewlines(name) ==
  LET kept == SelectSeq(name, LAMBDA c : c \notin Reserved \cup {"\n"})
  IN FirstHundred([i \in 1..Len(kept) |->
                     IF kept[i] = " " THEN "_" ELSE kept[i]])

\* C13 as stated: each of the three fields of the file name is sanitized by
\* removing the forbidden characters, replacing every space and every
\* newline with an underscore, and truncating to 100 characters.
C13_NewlinesBecomeUnderscores ==
  (pc = "next_page" /\ last = "saved") =>
     PathWith(UnderscoredNewlines) \in DOMAIN fs

\* C13 as amended: each of the three fields of the file name is sanitized
\* by removing the forbidden characters, replacing every space with an
\* underscore, removing every newline, and truncating to 100 characters.
C13_NewlinesAreRemoved ==
  (pc = "next_page" /\ last = "saved") =>
     PathWith(RemovedNewlines) \in DOMAIN fs

C13_WitnessNewline ==
  /\ pc = "next_page"
  /\ last = "saved"
  /\ "\n" \in Chars(NameFields[1])
  /\ PathWith(RemovedNewlines) \in DOMAIN fs
  /\ PathWith(UnderscoredNewlines) \notin DOMAIN fs

\* the files a step removes
Removed == DOMAIN fs \ DOMAIN fs'

\* the candidate files of the pages of the document other than the page of
\* the loop
OtherPagesFiles ==
  {path \in DOMAIN fs :
     /\ Under(path, illustrative_images_dir(cur.name))
     /\ ~Under(path, page_images_output_dir)}

\* C14: reconciling page n deletes only files extracted as candidates of
\* page n, under illustrative_images/page_<n>/; the candidate files of the
\* other pages stay as they are, whatever markdown_content references.
C14_CleanupStaysInItsPage ==
  [][pc = "reconcile" =>
       /\ \A path \in Removed :
             /\ Under(path, page_images_output_dir)
             /\ \E k \in 1..Len(sub_images) :
                   path = CandidateFile(cur.name, sub_images[k].path)
       /\ \A path \in OtherPagesFiles :
             path \in DOMAIN fs' /\ fs'[path] = fs[path]]_vars

C14_Witness ==
  /\ pc = "next_page"
  /\ last = "saved"
  /\ page_num = 1
  /\ Len(sub_images) = 1
  /\ ~CandidateExists(1)
  /\ CandidateFile(cur.name, RelativePath(0, 0)) \in DOMAIN fs
  /\ RelativePath(0, 0) \notin referenced_images(result.content.markdown_content.s)

====
